---- MODULE Spec2Model ----
(***************************************************************************)
(* Session client of the B2B mobile app: the AuthProvider                  *)
(* (frontend/contexts/AuthContext.tsx), the secure store it persists the   *)
(* session in, and the DashboardScreen that sends the bearer credential.   *)
(*                                                                         *)
(* Every async function is cut at its awaits: one action per continuation. *)
(* A native SecureStore operation and the continuation that follows it are *)
(* one step when the continuation touches no shared state, and two steps   *)
(* otherwise.  A React state update and the re-render (with its effects)   *)
(* that follows it are one step: no event handler runs between them.       *)
(*                                                                         *)
(* The backend (token service, credential store, authorization guard,      *)
(* stats aggregator) is a second state machine over the variable server;   *)
(* the client's requests are answered from bounded sets of responses, so   *)
(* the two machines share no variable.                                     *)
(***************************************************************************)
EXTENDS Integers, Sequences, FiniteSets, TLC

\* ------------------------------------------------------------------ bounds
\* number of dashboard stats requests that can be in flight at once
MaxInFlight == 2

\* days the backend clock runs
MaxTime == 8

\* orders a tenant can hold
MaxOrders == 1

\* ------------------------------------------------------------ value domains
\* JavaScript null / undefined
null == "null"

\* user === null: user?.x is undefined for every field x
nullUser == [id |-> null, role |-> null]

\* users the server knows (User interface: id, role)
Users == { [id |-> "alice", role |-> "Admin"],
           [id |-> "bob", role |-> "Buyer"],
           [id |-> "carol", role |-> "Sales"] }

\* what the server returned with each token it ever issued: { access_token,
\* user } of a successful POST /auth/login or /auth/register
Sessions ==
  { [access_token |-> "tokA", user |-> [id |-> "alice", role |-> "Admin"]],
    [access_token |-> "tokB", user |-> [id |-> "bob", role |-> "Buyer"]],
    [access_token |-> "tokC", user |-> [id |-> "carol", role |-> "Sales"]] }

\* response.data of the successful POSTs of this run; carol's session is of
\* an earlier run
AuthResponses == { r \in Sessions : r.user.id \in {"alice", "bob"} }

Tokens == { r.access_token : r \in Sessions }

\* error.response?.data?.detail of a failed POST; null: no response or no detail
LoginDetails == { "Could not validate credentials", null }
RegisterDetails == { "Email already registered", null }

\* the calls of login / register / logout that can be outstanding at once:
\* a call and one that races it
CallIds == {1, 2}

\* ------------------------------------------------------- pure functions
\* JavaScript truthiness of a string-or-null value
Truthy(x) == x # null /\ x # ""

\* a || b
OrElse(a, b) == IF Truthy(a) THEN a ELSE b

\* JSON.stringify(userData)
JSONstringify(u) == "{id:" \o u.id \o ",role:" \o u.role \o "}"

\* JSON.parse(s) returns a user: s is a text JSON.stringify wrote
Parses(s) == \E u \in Users : JSONstringify(u) = s

\* JSON.parse(storedUser), for a text that parses
JSONparse(s) == CHOOSE u \in Users : JSONstringify(u) = s

\* a stored text JSON.parse throws a SyntaxError on
Unparsable == "{id:carol"

\* template literal `${token}`
TemplateStr(t) == IF t = null THEN "null" ELSE t

\* Authorization header value `Bearer ${token}`
Bearer(t) == "Bearer " \o TemplateStr(t)

\* response.data of GET /dashboard/stats for the caller of a token
StatsOf(t) == [owner |-> t]

\* useState<Stats | null>(null)
nullStats == [owner |-> null]

\* message of the Error a failed login / register throws
FailMessage(op) ==
  IF op = "login" THEN "Login failed" ELSE "Registration failed"

\* variant: the catch block drops the server's detail
ThrownMessage_Generic(op, detail) == FailMessage(op)

ThrownMessage(op, detail) == OrElse(detail, FailMessage(op))

DetailsOf(op) == IF op = "login" THEN LoginDetails ELSE RegisterDetails

\* ------------------------------------------------------------------ state
VARIABLES
  store,      \* SecureStore: [auth_token, user_data]
  token,      \* AuthProvider state
  user,
  isLoading,
  restore,    \* the loadStoredAuth call started by the mount effect
  calls,      \* outstanding login / register / logout calls
  fresh,      \* no login / register / logout was started since the app started
  dash,       \* DashboardScreen: [mounted, token, stats, refreshing, loading]
  inflight,   \* stats requests in flight: bag of [auth, session]
  route,      \* the route the expo-router shows
  server      \* the backend: [users, orders, now, held, last]

vars == <<store, token, user, isLoading, restore, calls, fresh, dash, inflight,
          route, server>>

\* what a step of the DashboardScreen leaves alone
authVars == <<store, token, user, isLoading, restore, calls, fresh, route,
              server>>

\* what a step of the backend leaves alone
clientVars == <<store, token, user, isLoading, restore, calls, fresh, dash,
                inflight, route>>

\* no response.data yet
NoResponse == [access_token |-> null, user |-> nullUser]

\* a call: op and pc say where it is, resp is response.data, detail is
\* error.response?.data?.detail, err the message of the Error it threw.
\* History: log, the requests and storage calls it made and how each ended;
\* again, for a logout, that it was called right after a logout that
\* resolved, or with nothing stored and no session.
IdleCall == [op |-> "none", pc |-> "idle", resp |-> NoResponse,
             detail |-> null, err |-> null, log |-> <<>>, again |-> FALSE,
             nav |-> "none"]

\* loadStoredAuth is about to run.  History: afterLogout, the app was
\* restarted right after a logout resolved.
RestoreStart(afterLogout) ==
  [pc |-> "readToken", storedToken |-> null, storedUser |-> null,
   failed |-> FALSE, afterLogout |-> afterLogout]

\* loadStoredAuth has returned; failed: its catch block ran
RestoreDone(failed) ==
  [pc |-> "done", storedToken |-> null, storedUser |-> null,
   failed |-> failed, afterLogout |-> restore.afterLogout]

DashUnmounted == [mounted |-> FALSE, token |-> null, stats |-> nullStats,
                  refreshing |-> FALSE, loading |-> TRUE]

\* ---------------------------------------------------------- backend values
\* the user roles
Roles == {"Admin", "Sales", "Buyer"}

\* companies, the tenants
Tenants == {"Acme", "Globex"}

\* lifetime of a session token, in days
Lifetime == 7

\* bodies of POST /api/auth/register: two users, one more that takes the
\* email of the first with another mobile, one more that takes the mobile of
\* the second with another email
Registrations ==
  { [email |-> "alice@x.com", mobile |-> "5551234567", role |-> "Admin",
     company_name |-> "Acme"],
    [email |-> "bob@x.com", mobile |-> "5557654321", role |-> "Buyer",
     company_name |-> "Globex"],
    [email |-> "alice@x.com", mobile |-> "5550000000", role |-> "Sales",
     company_name |-> "Globex"],
    [email |-> "carol@x.com", mobile |-> "5557654321", role |-> "Sales",
     company_name |-> "Acme"] }

\* what a login can name: an email or a mobile
Identifiers ==
  { r.email : r \in Registrations } \cup { r.mobile : r \in Registrations }

\* the guarded routes: GET /dashboard/stats, GET /auth/me, GET /users and
\* the creation of an order
Routes == {"dashboard.stats", "auth.me", "users.list", "orders.create"}

\* permission table: the roles a route allows
AllowedRoles(r) ==
  CASE r = "users.list" -> {"Admin"}
    [] r = "orders.create" -> {"Admin", "Sales"}
    [] OTHER -> Roles

\* claims of no token
NoClaims == [sub |-> null, role |-> null, tenant |-> null, iat |-> 0, exp |-> 0]

\* a request without the bearer header
NoCredential == [kind |-> "none", claims |-> NoClaims, signed |-> FALSE]

\* a bearer credential that cannot be parsed
Malformed == [kind |-> "malformed", claims |-> NoClaims, signed |-> FALSE]

\* a token whose signature segment was changed
Tamper(cred) == [cred EXCEPT !.signed = FALSE]

\* issue(user): claims {sub, role, tenant_id, iat: now, exp: now + 7d}, signed
Issue(u, now) ==
  [kind |-> "token", signed |-> TRUE,
   claims |-> [sub |-> u.id, role |-> u.role, tenant |-> u.tenant,
               iat |-> now, exp |-> now + Lifetime]]

\* variant: a token is still accepted at the instant it expires
Verify_AcceptAtExpiry(cred, now) ==
  CASE cred.kind # "token" -> "Malformed"
    [] cred.kind = "token" /\ ~cred.signed -> "InvalidSignature"
    [] cred.kind = "token" /\ cred.signed /\ now > cred.claims.exp -> "Expired"
    [] OTHER -> "ok"

\* verify(token): structure, then signature, then expiry
Verify(cred, now) ==
  CASE cred.kind # "token" -> "Malformed"
    [] cred.kind = "token" /\ ~cred.signed -> "InvalidSignature"
    [] cred.kind = "token" /\ cred.signed /\ now >= cred.claims.exp -> "Expired"
    [] OTHER -> "ok"

\* the active user a subject id resolves to, as a set (empty: none)
Resolve(users, sub) == { u \in users : u.id = sub /\ u.active }

\* variant: a role outside the route's list is answered like a missing
\* credential
Guard_MismatchAsMissing(cred, r, users, now) ==
  CASE cred.kind = "none" -> "MissingCredential"
    [] cred.kind # "none" /\ Verify(cred, now) # "ok" -> Verify(cred, now)
    [] cred.kind # "none" /\ Verify(cred, now) = "ok"
         /\ Resolve(users, cred.claims.sub) = {} -> "RevokedOrInactive"
    [] cred.kind # "none" /\ Verify(cred, now) = "ok"
         /\ \E u \in Resolve(users, cred.claims.sub) :
              u.role \notin AllowedRoles(r) -> "MissingCredential"
    [] OTHER -> "ok"

\* the authorization guard: bearer header, verify, resolve the user, then the
\* route's allowed roles
Guard(cred, r, users, now) ==
  CASE cred.kind = "none" -> "MissingCredential"
    [] cred.kind # "none" /\ Verify(cred, now) # "ok" -> Verify(cred, now)
    [] cred.kind # "none" /\ Verify(cred, now) = "ok"
         /\ Resolve(users, cred.claims.sub) = {} -> "RevokedOrInactive"
    [] cred.kind # "none" /\ Verify(cred, now) = "ok"
         /\ \E u \in Resolve(users, cred.claims.sub) :
              u.role \notin AllowedRoles(r) -> "Forbidden"
    [] OTHER -> "ok"

\* the error kinds answered with 401 Unauthorized
Unauthorized == {"MissingCredential", "InvalidSignature", "Expired",
                 "Malformed", "RevokedOrInactive"}

\* HTTP status of a guard outcome
StatusOf(e) ==
  CASE e = "ok" -> 200
    [] e \in Unauthorized -> 401
    [] e = "Forbidden" -> 403
    [] OTHER -> 400

\* no Dashboard Snapshot: the response is not a stats response
NoSnapshot == [total_orders |-> -1]

\* variant: the orders of every tenant are counted
Aggregate_AllTenants(orders, tenant) ==
  LET Sum[S \in SUBSET Tenants] ==
        IF S = {} THEN 0
        ELSE LET t == CHOOSE x \in S : TRUE
             IN orders[t] + Sum[S \ {t}]
  IN [total_orders |-> Sum[Tenants]]

\* the Stats Aggregator: counts filtered by tenant_id = caller.tenant_id
Aggregate(orders, tenant) == [total_orders |-> orders[tenant]]

\* variant: only the email is looked up
Duplicate_EmailOnly(users, r) == \E u \in users : u.email = r.email

\* create(registration) rejects when the email or the mobile is present
Duplicate(users, r) ==
  \E u \in users : u.email = r.email \/ u.mobile = r.mobile

\* the User a registration creates
NewUser(r) ==
  [id |-> r.email, email |-> r.email, mobile |-> r.mobile, role |-> r.role,
   tenant |-> r.company_name, active |-> TRUE]

\* findByLoginIdentifier: the users an email or a mobile names
FindByLoginIdentifier(users, x) ==
  { u \in users : u.email = x \/ u.mobile = x }

\* no request answered yet
NoAnswer ==
  [route |-> "none", presented |-> "none", taken |-> FALSE,
   active |-> FALSE, role |-> null, age |-> 0, error |-> "none",
   stats |-> NoSnapshot]

\* the backend before any registration; held is the credential the last
\* successful register / login returned, last the last answer.  History in
\* last: presented, which credential the request carried; active and role,
\* of the user its subject names; age, the days since the token was issued;
\* taken, that the email or the mobile of a registration was a user's
ServerStart ==
  [users |-> {}, orders |-> [t \in Tenants |-> 0], now |-> 0,
   held |-> NoCredential, last |-> NoAnswer]

Init ==
  /\ store = [auth_token |-> null, user_data |-> null]
  /\ token = null
  /\ user = nullUser
  /\ isLoading = TRUE
  /\ restore = RestoreStart(FALSE)
  /\ calls = [c \in CallIds |-> IdleCall]
  /\ fresh = TRUE
  /\ dash = DashUnmounted
  /\ inflight = <<>>
  /\ route = "index"
  /\ server = ServerStart

\* what an earlier run of the app can have left in the secure store: nothing,
\* a session, or a session whose user_data is not JSON text
StoredAtStart ==
  { [auth_token |-> null, user_data |-> null],
    [auth_token |-> "tokC",
     user_data |-> JSONstringify([id |-> "carol", role |-> "Sales"])],
    [auth_token |-> "tokC", user_data |-> Unparsable] }

\* the app is started on a device whose secure store an earlier run filled
InitStored ==
  /\ store \in StoredAtStart
  /\ token = null
  /\ user = nullUser
  /\ isLoading = TRUE
  /\ restore = RestoreStart(FALSE)
  /\ calls = [c \in CallIds |-> IdleCall]
  /\ fresh = TRUE
  /\ dash = DashUnmounted
  /\ inflight = <<>>
  /\ route = "index"
  /\ server = ServerStart

\* --------------------------------------------------------- DashboardScreen
\* the request fetchStats sends; session is the AuthProvider token at that
\* moment (history, not part of the request)
StatsRequest(closureToken, session) ==
  [auth |-> Bearer(closureToken), session |-> session]

\* fetchStats() called from the render whose closure holds closureToken
FetchStats(closureToken, session) ==
  Append(inflight, StatsRequest(closureToken, session))

\* useEffect(() => { if (token) fetchStats() }, [token]) after a render in
\* which the provider's token is newToken
TokenEffectFires(newToken) ==
  dash.mounted /\ newToken # dash.token /\ Truthy(newToken)

\* variant: fetchStats keeps the token of the render that created it
DashRender_StaleClosure(newToken) ==
  IF dash.mounted
    THEN /\ dash' = [dash EXCEPT !.token = newToken]
         /\ IF TokenEffectFires(newToken)
              THEN /\ Len(inflight) < MaxInFlight
                   /\ inflight' = FetchStats(dash.token, newToken)
              ELSE inflight' = inflight
    ELSE UNCHANGED <<dash, inflight>>

\* the re-render of a mounted dashboard when the provider sets newToken
DashRender(newToken) ==
  IF dash.mounted
    THEN /\ dash' = [dash EXCEPT !.token = newToken]
         /\ IF TokenEffectFires(newToken)
              THEN /\ Len(inflight) < MaxInFlight
                   /\ inflight' = FetchStats(newToken, newToken)
              ELSE inflight' = inflight
    ELSE UNCHANGED <<dash, inflight>>

\* the screen is mounted: useState initial values, then the token effect
Mount ==
  /\ ~dash.mounted
  /\ dash' = [mounted |-> TRUE, token |-> token, stats |-> nullStats,
              refreshing |-> FALSE, loading |-> TRUE]
  /\ inflight' = IF Truthy(token) THEN FetchStats(token, token) ELSE inflight
  /\ UNCHANGED authVars

\* the screen is unmounted; responses to its requests no longer reach it
Unmount ==
  /\ dash.mounted
  /\ dash' = DashUnmounted
  /\ inflight' = <<>>
  /\ UNCHANGED authVars

\* pull-to-refresh; the RefreshControl exists only once loading is false
OnRefresh ==
  /\ dash.mounted
  /\ ~dash.loading
  /\ ~dash.refreshing
  /\ Len(inflight) < MaxInFlight
  /\ dash' = [dash EXCEPT !.refreshing = TRUE]
  /\ inflight' = FetchStats(dash.token, token)
  /\ UNCHANGED authVars

RemoveAt(s, i) == SubSeq(s, 1, i - 1) \o SubSeq(s, i + 1, Len(s))

\* the server accepts a request whose bearer value is a token it issued
ServerAccepts(req) == \E t \in Tokens : req.auth = Bearer(t)

IssuedTo(req) == CHOOSE t \in Tokens : req.auth = Bearer(t)

\* variant: the flags are reset in the catch block only
StatsOk_KeepsLoading(i) ==
  /\ i \in 1..Len(inflight)
  /\ ServerAccepts(inflight[i])
  /\ dash' = [dash EXCEPT !.stats = StatsOf(IssuedTo(inflight[i]))]
  /\ inflight' = RemoveAt(inflight, i)
  /\ UNCHANGED authVars

\* fetchStats: the awaited GET resolves; setStats, then the finally block
StatsOk(i) ==
  /\ i \in 1..Len(inflight)
  /\ ServerAccepts(inflight[i])
  /\ dash' = [dash EXCEPT !.stats = StatsOf(IssuedTo(inflight[i])),
                          !.loading = FALSE, !.refreshing = FALSE]
  /\ inflight' = RemoveAt(inflight, i)
  /\ UNCHANGED authVars

\* variant: a failed request drops the stats held so far
StatsFail_ClearsStats(i) ==
  /\ i \in 1..Len(inflight)
  /\ dash' = [dash EXCEPT !.stats = nullStats,
                          !.loading = FALSE, !.refreshing = FALSE]
  /\ inflight' = RemoveAt(inflight, i)
  /\ UNCHANGED authVars

\* fetchStats: the awaited GET rejects (401, network); catch, then finally
StatsFail(i) ==
  /\ i \in 1..Len(inflight)
  /\ dash' = [dash EXCEPT !.loading = FALSE, !.refreshing = FALSE]
  /\ inflight' = RemoveAt(inflight, i)
  /\ UNCHANGED authVars

\* variant: the Admin-only block is rendered for Sales too
StatCards_AdminBlockForSales(role) ==
  (IF role = "Admin" \/ role = "Sales"
     THEN <<"Total Orders", "Pending Orders", "Completed Orders",
            "Total Products", "Low Stock Items", "Total Vendors">>
     ELSE <<>>)
  \o (IF role = "Admin" \/ role = "Sales" \/ role = "Buyer"
        THEN <<"Pending Payments", "Total Revenue">> ELSE <<>>)
  \o (IF role = "Buyer" THEN <<"My Orders", "Pending Orders">> ELSE <<>>)

\* the titles of the StatCards the stats grid renders for user?.role
StatCards(role) ==
  (IF role = "Admin" \/ role = "Sales"
     THEN <<"Total Orders", "Pending Orders", "Completed Orders",
            "Total Products">>
     ELSE <<>>)
  \o (IF role = "Admin" THEN <<"Low Stock Items", "Total Vendors">> ELSE <<>>)
  \o (IF role = "Admin" \/ role = "Sales" \/ role = "Buyer"
        THEN <<"Pending Payments", "Total Revenue">> ELSE <<>>)
  \o (IF role = "Buyer" THEN <<"My Orders", "Pending Orders">> ELSE <<>>)

\* the labels of the buttons the quick actions grid renders for user?.role
QuickActions(role) ==
  (IF role = "Admin" \/ role = "Sales" THEN <<"Create Order">> ELSE <<>>)
  \o (IF role = "Admin" THEN <<"Add User">> ELSE <<>>)
  \o (IF role = "Admin" \/ role = "Sales" THEN <<"Add Product">> ELSE <<>>)
  \o (IF role = "Buyer" THEN <<"Make Payment">> ELSE <<>>)

\* the screen shows the grids (not the ActivityIndicator of the loading
\* branch)
GridsShown == dash.mounted /\ ~dash.loading

\* README, "Dashboard Shows" of each role
DashboardShows(role) ==
  CASE role = "Admin" ->
         {"Total Orders", "Pending Orders", "Completed Orders",
          "Total Products", "Low Stock Items", "Total Vendors",
          "Pending Payments", "Total Revenue"}
    [] role = "Sales" ->
         {"Total Orders", "Pending Orders", "Completed Orders",
          "Total Products", "Pending Payments", "Total Revenue"}
    [] role = "Buyer" ->
         {"My Orders", "Pending Orders", "Pending Payments", "Total Revenue"}
    [] OTHER -> {}

\* README, what each role may do, as the quick actions that do it:
\* Admin manages users, products and orders; Sales creates orders and only
\* views inventory; Buyer makes payments and creates or manages nothing
GrantedActions(role) ==
  CASE role = "Admin" -> {"Create Order", "Add User", "Add Product"}
    [] role = "Sales" -> {"Create Order"}
    [] role = "Buyer" -> {"Make Payment"}
    [] OTHER -> {}

\* ----------------------------------------------------------- AuthProvider
Logged(c, e) == Append(calls[c].log, e)

\* variant: setIsLoading(false) is the last statement of the try block
RestoreReadToken_NoFinally ==
  /\ restore.pc = "readToken"
  /\ \/ restore' = [restore EXCEPT !.pc = "readUser",
                                   !.storedToken = store.auth_token]
     \/ restore' = RestoreDone(TRUE)
  /\ UNCHANGED <<store, token, user, isLoading, calls, fresh, dash, inflight>>
  /\ UNCHANGED <<server, route>>

\* loadStoredAuth: await SecureStore.getItemAsync('auth_token')
RestoreReadToken ==
  /\ restore.pc = "readToken"
  /\ \/ /\ restore' = [restore EXCEPT !.pc = "readUser",
                                      !.storedToken = store.auth_token]
        /\ UNCHANGED isLoading
     \/ /\ restore' = RestoreDone(TRUE)
        /\ isLoading' = FALSE
  /\ UNCHANGED <<store, token, user, calls, fresh, dash, inflight>>
  /\ UNCHANGED <<server, route>>

\* loadStoredAuth: await SecureStore.getItemAsync('user_data')
RestoreReadUser ==
  /\ restore.pc = "readUser"
  /\ \/ /\ restore' = [restore EXCEPT !.pc = "adopt",
                                      !.storedUser = store.user_data]
        /\ UNCHANGED isLoading
     \/ /\ restore' = RestoreDone(TRUE)
        /\ isLoading' = FALSE
  /\ UNCHANGED <<store, token, user, calls, fresh, dash, inflight>>
  /\ UNCHANGED <<server, route>>

\* loadStoredAuth: if (storedToken && storedUser) { setToken(storedToken);
\* setUser(JSON.parse(storedUser)) }: setToken has run when JSON.parse
\* throws, then the catch block logs; finally setIsLoading(false)
RestoreFinish ==
  /\ restore.pc = "adopt"
  /\ isLoading' = FALSE
  /\ IF Truthy(restore.storedToken) /\ Truthy(restore.storedUser)
       THEN /\ token' = restore.storedToken
            /\ user' = IF Parses(restore.storedUser)
                         THEN JSONparse(restore.storedUser) ELSE user
            /\ restore' = RestoreDone(~Parses(restore.storedUser))
            /\ DashRender(restore.storedToken)
       ELSE /\ restore' = RestoreDone(FALSE)
            /\ UNCHANGED <<token, user, dash, inflight>>
  /\ UNCHANGED <<store, calls, fresh>>
  /\ UNCHANGED <<server, route>>

Settled(c) == calls[c].pc \in {"idle", "resolved", "rejected"}

\* no login, register or logout call is in progress
Quiet == \A c \in CallIds : Settled(c)

\* a new call takes the first slot whose call, if any, has settled
FreeSlot(c) ==
  /\ Settled(c)
  /\ \A b \in CallIds : b < c => ~Settled(b)

\* the caller awaited every call so far, and the last one is a logout that
\* resolved
LogoutJustResolved ==
  /\ calls[1].op = "logout" /\ calls[1].pc = "resolved"
  /\ \A c \in CallIds : c # 1 => calls[c].pc = "idle"

EmptyStore == [auth_token |-> null, user_data |-> null]

NoSession == token = null /\ user = nullUser

\* a logout called now should change nothing
LogoutRedundant == LogoutJustResolved \/ (store = EmptyStore /\ NoSession)

\* login() / register() is called: axios.post is sent
AuthStart(c, op) ==
  /\ FreeSlot(c)
  /\ calls' = [calls EXCEPT ![c] = [op |-> op, pc |-> "post",
                                    resp |-> NoResponse, detail |-> null,
                                    err |-> null, log |-> <<"post">>,
                                    again |-> FALSE, nav |-> "none"]]
  /\ fresh' = FALSE
  /\ UNCHANGED <<store, token, user, isLoading, restore, dash, inflight>>
  /\ UNCHANGED <<server, route>>

Login(c) == AuthStart(c, "login")

Register(c) == AuthStart(c, "register")

\* variant: the session state is set before anything is persisted
PostOk_SessionFirst(c) ==
  /\ calls[c].pc = "post"
  /\ \E r \in AuthResponses :
       /\ calls' = [calls EXCEPT ![c].pc = "writeToken", ![c].resp = r,
                                 ![c].log = Logged(c, "post.ok")]
       /\ token' = r.access_token
       /\ user' = r.user
       /\ DashRender(r.access_token)
  /\ UNCHANGED <<store, isLoading, restore, fresh>>
  /\ UNCHANGED <<server, route>>

\* the awaited axios.post resolves: destructure response.data
PostOk(c) ==
  /\ calls[c].pc = "post"
  /\ \E r \in AuthResponses :
       calls' = [calls EXCEPT ![c].pc = "writeToken", ![c].resp = r,
                              ![c].log = Logged(c, "post.ok")]
  /\ UNCHANGED <<store, token, user, isLoading, restore, fresh, dash, inflight>>
  /\ UNCHANGED <<server, route>>

\* variant: a failed request is sent again
PostFail_Retry(c) ==
  /\ calls[c].pc = "post"
  /\ calls' = [calls EXCEPT ![c].log = Logged(c, "post.fail") \o <<"post">>]
  /\ UNCHANGED <<store, token, user, isLoading, restore, fresh, dash, inflight>>
  /\ UNCHANGED <<server, route>>

\* the awaited axios.post rejects: throw new Error(detail || '... failed')
PostFail(c) ==
  /\ calls[c].pc = "post"
  /\ \E d \in DetailsOf(calls[c].op) :
       calls' = [calls EXCEPT ![c].pc = "rejected",
                              ![c].detail = d,
                              ![c].err = ThrownMessage(calls[c].op, d),
                              ![c].log = Logged(c, "post.fail")]
  /\ UNCHANGED <<store, token, user, isLoading, restore, fresh, dash, inflight>>
  /\ UNCHANGED <<server, route>>

\* a storage call of login / register rejects: the catch block rethrows
\* (error.response is undefined)
StorageThrow(c, e) ==
  calls' = [calls EXCEPT ![c].pc = "rejected",
                         ![c].resp = NoResponse,
                         ![c].err = ThrownMessage(calls[c].op, null),
                         ![c].log = Logged(c, e)]

\* await SecureStore.setItemAsync('auth_token', access_token)
WriteToken(c) ==
  /\ calls[c].pc = "writeToken"
  /\ \/ /\ store' = [store EXCEPT !.auth_token = calls[c].resp.access_token]
        /\ calls' = [calls EXCEPT ![c].pc = "writeUser",
                                  ![c].log = Logged(c, "setToken.ok")]
     \/ /\ StorageThrow(c, "setToken.fail")
        /\ UNCHANGED store
  /\ UNCHANGED <<token, user, isLoading, restore, fresh, dash, inflight>>
  /\ UNCHANGED <<server, route>>

\* await SecureStore.setItemAsync('user_data', JSON.stringify(userData))
WriteUser(c) ==
  /\ calls[c].pc = "writeUser"
  /\ \/ /\ store' = [store EXCEPT
                         !.user_data = JSONstringify(calls[c].resp.user)]
        /\ calls' = [calls EXCEPT ![c].pc = "setSession",
                                  ![c].log = Logged(c, "setUser.ok")]
     \/ /\ StorageThrow(c, "setUser.fail")
        /\ UNCHANGED store
  /\ UNCHANGED <<token, user, isLoading, restore, fresh, dash, inflight>>
  /\ UNCHANGED <<server, route>>

\* setToken(access_token); setUser(userData); the call resolves
SetSession(c) ==
  /\ calls[c].pc = "setSession"
  /\ token' = calls[c].resp.access_token
  /\ user' = calls[c].resp.user
  /\ calls' = [calls EXCEPT ![c].pc = "resolved", ![c].resp = NoResponse,
                            ![c].log = Logged(c, "mem")]
  /\ DashRender(calls[c].resp.access_token)
  /\ UNCHANGED <<store, isLoading, restore, fresh>>
  /\ UNCHANGED <<server, route>>

\* logout() is called: deleteItemAsync('auth_token') is issued; nav is what
\* the caller does once the promise resolves
LogoutCalled(c, nav) ==
  /\ FreeSlot(c)
  /\ calls' = [calls EXCEPT ![c] = [op |-> "logout", pc |-> "delToken",
                                    resp |-> NoResponse, detail |-> null,
                                    err |-> null, log |-> <<>>,
                                    again |-> LogoutRedundant, nav |-> nav]]
  /\ fresh' = FALSE
  /\ UNCHANGED <<store, token, user, isLoading, restore, dash, inflight>>
  /\ UNCHANGED <<server, route>>

\* logout() is called by a consumer that does nothing afterwards
Logout(c) == LogoutCalled(c, "none")

\* ProfileScreen.handleLogout, the Logout button of the alert is pressed:
\* await logout(); router.replace('/auth/login') is its continuation
HandleLogout(c) ==
  /\ route = "(tabs)"
  /\ LogoutCalled(c, "replace")

\* the continuation of the caller when logout() resolves in this step
NavigateAfter(c) ==
  route' = IF calls'[c].pc = "resolved" /\ calls[c].nav = "replace"
             THEN "auth/login"
             ELSE route

\* the entry point or the login screen shows the tabs once there is a session
EnterTabs ==
  /\ route # "(tabs)"
  /\ Truthy(token)
  /\ route' = "(tabs)"
  /\ UNCHANGED <<store, token, user, isLoading, restore, calls, fresh, dash,
                 inflight, server>>

\* a storage call of logout rejects: the catch block logs, logout resolves
LogoutCatch(c, e) ==
  calls' = [calls EXCEPT ![c].pc = "resolved", ![c].log = Logged(c, e)]

\* await SecureStore.deleteItemAsync('auth_token')
DeleteToken(c) ==
  /\ calls[c].pc = "delToken"
  /\ \/ /\ store' = [store EXCEPT !.auth_token = null]
        /\ calls' = [calls EXCEPT ![c].pc = "delUser",
                                  ![c].log = Logged(c, "delToken.ok")]
     \/ /\ LogoutCatch(c, "delToken.fail")
        /\ UNCHANGED store
  /\ UNCHANGED <<token, user, isLoading, restore, fresh, dash, inflight>>
  /\ NavigateAfter(c)
  /\ UNCHANGED server

\* await SecureStore.deleteItemAsync('user_data')
DeleteUser(c) ==
  /\ calls[c].pc = "delUser"
  /\ \/ /\ store' = [store EXCEPT !.user_data = null]
        /\ calls' = [calls EXCEPT ![c].pc = "clearSession",
                                  ![c].log = Logged(c, "delUser.ok")]
     \/ /\ LogoutCatch(c, "delUser.fail")
        /\ UNCHANGED store
  /\ UNCHANGED <<token, user, isLoading, restore, fresh, dash, inflight>>
  /\ NavigateAfter(c)
  /\ UNCHANGED server

\* setToken(null); setUser(null); logout resolves
ClearSession(c) ==
  /\ calls[c].pc = "clearSession"
  /\ token' = null
  /\ user' = nullUser
  /\ calls' = [calls EXCEPT ![c].pc = "resolved", ![c].log = Logged(c, "mem")]
  /\ DashRender(null)
  /\ UNCHANGED <<store, isLoading, restore, fresh>>
  /\ NavigateAfter(c)
  /\ UNCHANGED server

\* the app process is restarted: a fresh AuthProvider (useState initial
\* values, loadStoredAuth from the mount effect); the secure store persists
AppRestart ==
  /\ restore.pc = "done"
  /\ token' = null
  /\ user' = nullUser
  /\ isLoading' = TRUE
  /\ restore' = RestoreStart(LogoutJustResolved)
  /\ calls' = [c \in CallIds |-> IdleCall]
  /\ fresh' = TRUE
  /\ dash' = DashUnmounted
  /\ inflight' = <<>>
  /\ route' = "index"
  /\ UNCHANGED <<store, server>>

\* --------------------------------------------------------- backend actions
\* the answer to POST /api/auth/register or /api/auth/login
AuthAnswer(r, e) == [NoAnswer EXCEPT !.route = r, !.error = e]

\* POST /api/auth/register: create the user and issue a token, or 400
SrvRegister(r) ==
  /\ LET taken == \/ \E u \in server.users : u.email = r.email
                  \/ \E u \in server.users : u.mobile = r.mobile
         answer(e) == [AuthAnswer("auth.register", e) EXCEPT !.taken = taken]
     IN server' =
          IF Duplicate(server.users, r)
            THEN [server EXCEPT !.last = answer("DuplicateIdentifier")]
            ELSE [server EXCEPT
                    !.users = @ \cup {NewUser(r)},
                    !.held = Issue(NewUser(r), server.now),
                    !.last = answer("ok")]
  /\ UNCHANGED clientVars

\* POST /api/auth/login: an active user and the right password, or 401
SrvLogin(x, passwordOk) ==
  /\ LET found == { u \in FindByLoginIdentifier(server.users, x) :
                      u.active /\ passwordOk }
     IN server' =
          IF found = {}
            THEN [server EXCEPT
                    !.last = AuthAnswer("auth.login", "InvalidCredentials")]
            ELSE [server EXCEPT
                    !.held = Issue(CHOOSE u \in found : TRUE, server.now),
                    !.last = AuthAnswer("auth.login", "ok")]
  /\ UNCHANGED clientVars

\* an account is deactivated (users are never deleted)
SrvDeactivate(u) ==
  /\ u \in server.users
  /\ u.active
  /\ server' = [server EXCEPT
                  !.users = (@ \ {u}) \cup {[u EXCEPT !.active = FALSE]}]
  /\ UNCHANGED clientVars

\* a day passes
SrvTick ==
  /\ server.now < MaxTime
  /\ server' = [server EXCEPT !.now = @ + 1]
  /\ UNCHANGED clientVars

\* the credential a request carries
Presented(p) ==
  CASE p = "held" -> server.held
    [] p = "tampered" -> Tamper(server.held)
    [] p = "malformed" -> Malformed
    [] OTHER -> NoCredential

\* the answer of a guarded route to a credential, in the current state
Answer(r, cred) ==
  LET e == Guard(cred, r, server.users, server.now)
      named == { u \in server.users : u.id = cred.claims.sub }
      caller == CHOOSE u \in named : TRUE
  IN [route |-> r,
      presented |-> "none",
      taken |-> FALSE,
      active |-> \E u \in named : u.active,
      role |-> IF named = {} THEN null ELSE caller.role,
      age |-> IF cred.kind = "token" THEN server.now - cred.claims.iat ELSE 0,
      error |-> e,
      stats |-> IF e = "ok" /\ r = "dashboard.stats"
                  THEN Aggregate(server.orders, caller.tenant)
                  ELSE NoSnapshot]

\* a request to a guarded route; an allowed orders.create adds an order to
\* the caller's tenant
SrvRequest(r, p) ==
  /\ p \in {"held", "tampered"} => server.held.kind = "token"
  /\ LET cred == Presented(p)
         a == [Answer(r, cred) EXCEPT !.presented = p]
         t == cred.claims.tenant
     IN /\ (r = "orders.create" /\ a.error = "ok") =>
             server.orders[t] < MaxOrders
        /\ server' =
             IF r = "orders.create" /\ a.error = "ok"
               THEN [server EXCEPT !.orders[t] = @ + 1, !.last = a]
               ELSE [server EXCEPT !.last = a]
  /\ UNCHANGED clientVars

\* a step of the backend
ServerStep ==
  \/ \E r \in Registrations : SrvRegister(r)
  \/ \E x \in Identifiers, passwordOk \in BOOLEAN : SrvLogin(x, passwordOk)
  \/ \E r \in Registrations : SrvDeactivate(NewUser(r))
  \/ SrvTick
  \/ \E r \in Routes, p \in {"none", "malformed", "held", "tampered"} :
       SrvRequest(r, p)

\* a step of the AuthProvider, with at most the calls of ids outstanding
ProviderStep(ids) ==
  \/ RestoreReadToken
  \/ RestoreReadUser
  \/ RestoreFinish
  \/ \E c \in ids : Login(c)
  \/ \E c \in ids : Register(c)
  \/ \E c \in ids : PostOk(c)
  \/ \E c \in ids : PostFail(c)
  \/ \E c \in ids : WriteToken(c)
  \/ \E c \in ids : WriteUser(c)
  \/ \E c \in ids : SetSession(c)
  \/ \E c \in ids : Logout(c)
  \/ \E c \in ids : DeleteToken(c)
  \/ \E c \in ids : DeleteUser(c)
  \/ \E c \in ids : ClearSession(c)
  \/ AppRestart

\* a step of the DashboardScreen
DashboardStep ==
  \/ Mount
  \/ Unmount
  \/ OnRefresh
  \/ \E i \in 1..MaxInFlight : StatsOk(i)
  \/ \E i \in 1..MaxInFlight : StatsFail(i)

Next ==
  \/ ProviderStep(CallIds)
  \/ DashboardStep
  \/ \E c \in CallIds : HandleLogout(c)
  \/ EnterTabs
  \/ ServerStep

Spec == Init /\ [][Next]_vars

\* The provider alone.  The dashboard only reads the provider's token and
\* every DashboardStep leaves authVars unchanged, so what SpecAuth shows of
\* authVars holds of Spec.
NextAuth == ProviderStep(CallIds)

SpecAuth == Init /\ [][NextAuth]_vars

\* The dashboard with a provider whose caller awaits each call before the
\* next: the dashboard sees of a call nothing but the token it sets.
NextDash == ProviderStep({1}) \/ DashboardStep

SpecDash == Init /\ [][NextDash]_vars

\* a stats request in flight settles: the server answers or the request
\* errors
StatsSettles == \E i \in 1..MaxInFlight : StatsOk(i) \/ StatsFail(i)

\* the same, where every request that stays in flight settles
SpecDashLive == SpecDash /\ WF_vars(StatsSettles)

\* The provider alone, with a caller that awaits each call before the next.
NextSeq == ProviderStep({1})

SpecSeq == Init /\ [][NextSeq]_vars

\* the same on a device whose secure store an earlier run filled
SpecStored == InitStored /\ [][NextSeq]_vars

\* the same, where every getItemAsync settles and its continuation runs
SpecStoredLive ==
  /\ SpecStored
  /\ WF_vars(RestoreReadToken)
  /\ WF_vars(RestoreReadUser)
  /\ WF_vars(RestoreFinish)

\* the same with the dashboard
SpecStoredDash == InitStored /\ [][NextDash]_vars

\* the backend alone
NextServer == ServerStep

SpecServer == Init /\ [][NextServer]_vars

\* the provider with one call at a time, and the profile screen
NextProfile ==
  \/ ProviderStep({1})
  \/ HandleLogout(1)
  \/ EnterTabs

SpecProfile == Init /\ [][NextProfile]_vars

\* ================================================================ properties
AuthOps == {"login", "register"}

\* event e is in a call's log
HasIn(log, e) == \E i \in 1..Len(log) : log[i] = e

\* how many entries of a log are in the set es
CountIn(log, es) == Cardinality({ i \in 1..Len(log) : log[i] \in es })

FailEvents == {"post.fail", "setToken.fail", "setUser.fail",
               "delToken.fail", "delUser.fail"}

BothStored == store.auth_token # null /\ store.user_data # null

\* call c takes a step
CallStep(c) == calls'[c] # calls[c]

\* the logout in slot c resolves in this step
LogoutCompletes(c) ==
  calls[c].op = "logout" /\ ~Settled(c) /\ calls'[c].pc = "resolved"

\* C1: a login / register call changes the in-memory token and user only in
\* a step taken after both of its storage writes succeeded; a call one of
\* whose writes failed rejects, and none of its steps has changed the
\* in-memory token or user.
C1_PersistBeforeSession ==
  [][\A c \in CallIds :
       (CallStep(c) /\ calls'[c].op \in AuthOps) =>
         /\ (token' # token \/ user' # user) =>
              /\ HasIn(calls[c].log, "setToken.ok")
              /\ HasIn(calls[c].log, "setUser.ok")
         /\ (HasIn(calls'[c].log, "setToken.fail")
               \/ HasIn(calls'[c].log, "setUser.fail")) =>
              /\ calls'[c].pc = "rejected"
              /\ ~HasIn(calls'[c].log, "mem")
              /\ token' = token /\ user' = user]_vars

\* a call rejected by its second storage write, the first one persisted, and
\* no session in memory
C1_Witness ==
  \E c \in CallIds :
    /\ calls[c].op \in AuthOps /\ calls[c].pc = "rejected"
    /\ HasIn(calls[c].log, "setUser.fail")
    /\ store.auth_token # null
    /\ NoSession

\* C2: whenever no login, register or logout call is in progress, auth_token
\* and user_data are both present or both absent.
C2_EntriesPaired ==
  Quiet => (store.auth_token = null <=> store.user_data = null)

\* C3: once the startup restore is done (and no other call was made), a
\* session is active exactly when both entries are stored, with the stored
\* token and identity; no request is made while it runs.
C3_AdoptsIffBothStored ==
  fresh =>
    /\ restore.pc # "done" => NoSession /\ inflight = <<>>
    /\ restore.pc = "done" =>
         IF BothStored
           THEN /\ token = store.auth_token
                /\ Parses(store.user_data)
                /\ user = JSONparse(store.user_data)
           ELSE NoSession

\* C4: when a logout call completes, both entries are absent and token and
\* user are null; logout clears the memory only after both deletions.
C4_LogoutClears ==
  [][\A c \in CallIds :
       /\ LogoutCompletes(c) =>
            (store' = EmptyStore /\ token' = null /\ user' = nullUser)
       /\ (calls[c].op = "logout" /\ CallStep(c)
             /\ HasIn(calls'[c].log, "mem")) =>
            /\ HasIn(calls[c].log, "delToken.ok")
            /\ HasIn(calls[c].log, "delUser.ok")]_vars

\* C5: a logout called right after a logout, or with nothing stored and no
\* session, never rejects and completes with both entries absent and token
\* and user null.
C5_LogoutIdempotent ==
  [][\A c \in CallIds :
       /\ calls'[c].op = "logout" => calls'[c].pc # "rejected"
       /\ (LogoutCompletes(c) /\ calls[c].again) =>
            (store' = EmptyStore /\ token' = null /\ user' = nullUser)]_vars

\* C6: after a logout resolved and the app was restarted, both entries are
\* absent and the restore leaves token and user null.
C6_NoSessionAfterLogoutRestart ==
  (restore.afterLogout /\ fresh) =>
    /\ store = EmptyStore
    /\ NoSession

\* C7: a stats request sent while a session is active carries
\* 'Bearer <t>', t the provider's token at that moment.
C7_BearerIsSessionToken ==
  \A i \in 1..Len(inflight) :
    inflight[i].session # null =>
      inflight[i].auth = "Bearer " \o inflight[i].session

\* a request for the second session's token while the dashboard still shows
\* the stats of the first
C7_Witness ==
  /\ dash.stats = StatsOf("tokA")
  /\ \E i \in 1..Len(inflight) :
       inflight[i].session = "tokB" /\ inflight[i].auth = "Bearer tokB"

\* C8: no stats request carries a bearer value built from a null token.
C8_NoBearerNull ==
  \A i \in 1..Len(inflight) : inflight[i].auth # "Bearer null"

\* C9: a login / register call that made a failing step rejects with a
\* message and does not resolve; if the server's response carried a detail
\* the message is that detail.
C9_ErrorsReachCaller ==
  \A c \in CallIds :
    calls[c].op \in AuthOps =>
      /\ CountIn(calls[c].log, FailEvents) > 0 =>
           calls[c].pc = "rejected" /\ calls[c].err # null
      /\ calls[c].pc = "resolved" => CountIn(calls[c].log, FailEvents) = 0
      /\ (calls[c].pc = "rejected" /\ calls[c].detail # null) =>
           calls[c].err = calls[c].detail

\* a register call rejected with the server's detail
C9_Witness ==
  \E c \in CallIds :
    /\ calls[c].op = "register" /\ calls[c].pc = "rejected"
    /\ calls[c].detail = "Email already registered"
    /\ calls[c].err = "Email already registered"

\* C10: a login / register call sends exactly one request and makes each
\* storage write at most once, and a failed step is its last.
C10_NoRetry ==
  \A c \in CallIds :
    calls[c].op \in AuthOps =>
      /\ CountIn(calls[c].log, {"post"}) = 1
      /\ CountIn(calls[c].log, {"setToken.ok", "setToken.fail"}) <= 1
      /\ CountIn(calls[c].log, {"setUser.ok", "setUser.fail"}) <= 1
      /\ \A i \in 1..Len(calls[c].log) :
           calls[c].log[i] \in FailEvents =>
             i = Len(calls[c].log) /\ calls[c].pc = "rejected"

\* a call whose request failed, and one whose first storage write failed
C10_Witness ==
  /\ calls[1].log = <<"post", "post.fail">>
  /\ calls[2].log = <<"post", "post.ok", "setToken.fail">>

Range(s) == { s[i] : i \in 1..Len(s) }

\* C11: whenever the dashboard shows its stats grid to a user of a role, the
\* cards are those the README lists for that role, each rendered once.
C11_CardsMatchRole ==
  (GridsShown /\ user.role \in Roles) =>
    /\ Range(StatCards(user.role)) = DashboardShows(user.role)
    /\ Cardinality(Range(StatCards(user.role))) = Len(StatCards(user.role))

\* the grid is shown to a Sales user: six cards, none of the Admin-only ones
C11_Witness ==
  /\ GridsShown /\ user.role = "Sales"
  /\ Len(StatCards(user.role)) = 6
  /\ "Total Vendors" \notin Range(StatCards(user.role))

\* C12: the quick actions offered to a user are among those the permission
\* table grants the user's role.
C12_ActionsGranted ==
  GridsShown =>
    Range(QuickActions(user.role)) \subseteq GrantedActions(user.role)

\* the answer GET /dashboard/stats gives now to a fresh token of user u
StatsResponse(u) == Answer("dashboard.stats", Issue(u, server.now))

\* C13: a step that changes the orders of a tenant changes the
\* /dashboard/stats answer to no user of another tenant.
C13_TenantIsolation ==
  [][\A a \in Tenants :
       server'.orders[a] # server.orders[a] =>
         \A u \in server.users :
           u.tenant # a => StatsResponse(u)' = StatsResponse(u)]_vars

\* an order exists under Acme, and a Buyer of Globex was just answered
\* stats that count none
C13_Witness ==
  /\ server.orders["Acme"] = 1
  /\ server.last.route = "dashboard.stats"
  /\ server.last.error = "ok"
  /\ server.last.role = "Buyer"
  /\ server.last.stats = [total_orders |-> 0]

\* the error kinds with which verify rejects a credential
VerifyErrors == {"Malformed", "InvalidSignature", "Expired"}

\* C14: a request carrying the issued token is rejected as Expired when the
\* token is 7 days old or older and passes verify when it is younger; every
\* issued token expires 7 days after its issuance, and the expiry of the
\* held token changes only by a successful login or register, which issues
\* a token at the current time.
C14_SevenDayLifetime ==
  /\ [](server.last.presented = "held" =>
          IF server.last.age >= Lifetime
            THEN server.last.error = "Expired"
            ELSE server.last.error \notin
                   VerifyErrors \cup {"MissingCredential"})
  /\ [](server.held.kind = "token" =>
          server.held.claims.exp = server.held.claims.iat + Lifetime)
  /\ [][server'.held # server.held =>
          /\ server'.last.route \in {"auth.login", "auth.register"}
          /\ server'.last.error = "ok"
          /\ server'.held.claims.iat = server.now]_vars

\* the token was presented at the instant it expired, and rejected
C14_Witness ==
  /\ server.last.presented = "held"
  /\ server.last.age = Lifetime
  /\ server.last.error = "Expired"

\* the last request carried a signed, unexpired token of an active user
ValidTokenPresented ==
  /\ server.last.route \in Routes
  /\ server.last.presented = "held"
  /\ server.last.age < Lifetime
  /\ server.last.active

\* C15: a request with a valid token whose user's role is not among the
\* route's allowed roles is answered Forbidden (403), and a request with a
\* valid token is never answered with a 401-class error.
C15_ForbiddenNot401 ==
  ValidTokenPresented =>
    /\ server.last.error \notin Unauthorized
    /\ server.last.role \notin AllowedRoles(server.last.route) =>
         /\ server.last.error = "Forbidden"
         /\ StatusOf(server.last.error) = 403

\* a Buyer with a valid token asked for the user listing
C15_Witness ==
  /\ ValidTokenPresented
  /\ server.last.route = "users.list"
  /\ server.last.role = "Buyer"
  /\ server.last.error = "Forbidden"

\* no two users share an email or a mobile
UniqueIdentifiers ==
  \A u, v \in server.users :
    u # v => u.email # v.email /\ u.mobile # v.mobile

\* the ids of the users
UserIds(users) == { u.id : u \in users }

\* C16: no two users ever share an email or a mobile; a registration whose
\* email or mobile is already a user's is answered DuplicateIdentifier (400)
\* and leaves the users as they were, and a user is only ever added by a
\* registration whose email and mobile were free.
C16_IdentifiersUnique ==
  /\ []UniqueIdentifiers
  /\ []((server.last.route = "auth.register" /\ server.last.taken) =>
          /\ server.last.error = "DuplicateIdentifier"
          /\ StatusOf(server.last.error) = 400)
  /\ [][/\ (/\ server'.last # server.last
             /\ server'.last.route = "auth.register"
             /\ server'.last.taken) => server'.users = server.users
        /\ UserIds(server'.users) # UserIds(server.users) =>
             /\ server'.last.route = "auth.register"
             /\ ~server'.last.taken
             /\ server'.last.error = "ok"]_vars

\* with two users registered, a registration that reused an email or a
\* mobile was rejected
C16_Witness ==
  /\ Cardinality(server.users) = 2
  /\ server.last.route = "auth.register"
  /\ server.last.taken
  /\ server.last.error = "DuplicateIdentifier"

\* this step is the router.replace('/auth/login') of handleLogout
ReachesLogin == route # "auth/login" /\ route' = "auth/login"

\* C17: the profile screen's logout reaches the login screen only in the
\* step in which its logout call resolves, and at that moment the session is
\* cleared: token and user null, both secure-store entries absent.
C17_LoginScreenMeansCleared ==
  [][ReachesLogin =>
       /\ \E c \in CallIds : /\ calls[c].op = "logout"
                              /\ calls[c].pc # "resolved"
                              /\ calls'[c].pc = "resolved"
       /\ token' = null
       /\ user' = nullUser
       /\ store' = EmptyStore]_vars

\* no login, register, logout or startup restore is in progress
AllSettled == Quiet /\ restore.pc = "done"

\* C18: once no call and no restore is in progress the in-memory token is
\* null exactly when auth_token is absent and otherwise equals the stored
\* auth_token.
C18_MemoryAgreesWithStore ==
  AllSettled => token = store.auth_token

\* token t and user u came in one response of the server
SameResponse(t, u) ==
  \E r \in Sessions : r.access_token = t /\ r.user = u

\* C19: once no call is in progress, a stored auth_token and the stored
\* user_data come from one server response, and so do the in-memory token
\* and the in-memory user.
C19_PairFromOneResponse ==
  Quiet =>
    /\ BothStored =>
         \E r \in Sessions : /\ r.access_token = store.auth_token
                             /\ JSONstringify(r.user) = store.user_data
    /\ token # null => SameResponse(token, user)

\* C20: in every state of the AuthProvider, token is non-null exactly when
\* user is non-null.
C20_TokenIffUser == (token # null) <=> (user # nullUser)

\* C21: whenever a mounted dashboard holds stats while a session is active,
\* they are the response to a request that carried the session's token.
C21_StatsOfCurrentSession ==
  (dash.mounted /\ dash.stats # nullStats /\ token # null) =>
    dash.stats = StatsOf(token)

\* this step is a stats request failing
StatsRequestFails == \E i \in 1..MaxInFlight : StatsFail(i)

\* C22: a step in which a stats request fails leaves the held stats, the
\* in-memory token and user, both secure-store entries and the provider's
\* calls as they were (no logout starts), and loading and refreshing are
\* false after it.
C22_FailureKeepsStatsAndSession ==
  [][StatsRequestFails =>
       /\ dash'.stats = dash.stats
       /\ dash'.mounted = dash.mounted /\ dash'.token = dash.token
       /\ ~dash'.loading /\ ~dash'.refreshing
       /\ token' = token /\ user' = user /\ store' = store
       /\ calls' = calls /\ restore' = restore
       /\ isLoading' = isLoading /\ route' = route]_vars

\* the only request of a mounted dashboard with a session failed: it is no
\* longer loading and holds no stats
C22_Witness ==
  /\ dash.mounted /\ ~dash.loading /\ ~dash.refreshing
  /\ dash.stats = nullStats
  /\ token = "tokA" /\ dash.token = "tokA"
  /\ store.auth_token = "tokA"
  /\ inflight = <<>>

\* C23: while the dashboard stays mounted, a step in which one of its stats
\* requests settles leaves loading and refreshing false, and loading, once
\* false, stays false; a mounted dashboard that is loading with a session,
\* or refreshing, eventually is neither (or is unmounted).
C23_LoadingEnds ==
  /\ [][(dash.mounted /\ dash'.mounted) =>
          /\ Len(inflight') < Len(inflight) =>
               ~dash'.loading /\ ~dash'.refreshing
          /\ ~dash.loading => ~dash'.loading]_vars
  /\ (dash.mounted /\ (dash.refreshing \/
                         (dash.loading /\ Truthy(dash.token))))
       ~> (~dash.mounted \/ (~dash.loading /\ ~dash.refreshing))

\* the request of the mount has settled and a pull-to-refresh is in flight
C23_Witness ==
  /\ dash.mounted /\ ~dash.loading /\ dash.refreshing
  /\ Truthy(dash.token)
  /\ Len(inflight) = 1

\* this step starts a new app process: a new AuthProvider is mounted
NewProcess == fresh' /\ restore'.pc = "readToken" /\ restore.pc = "done"

\* C24: within one app process isLoading is true until the startup restore
\* has settled and false from then on, whatever the restore found; it
\* eventually becomes false; no step of a login, register or logout call
\* changes it.
C24_IsLoadingEndsOnce ==
  /\ [](isLoading <=> restore.pc # "done")
  /\ isLoading ~> ~isLoading
  /\ [][/\ (~isLoading /\ isLoading') => NewProcess
        /\ \A c \in CallIds :
             (CallStep(c) /\ ~NewProcess) => isLoading' = isLoading]_vars

\* the restore settled on a stored user_data that does not parse
C24_Witness ==
  /\ ~isLoading
  /\ restore.pc = "done" /\ restore.failed
  /\ store.user_data = Unparsable
  /\ token = "tokC"

====
